---------------------------- MODULE Spec2Model ----------------------------
(***************************************************************************)
(* Model of bm/ensemble_score.py: rank of the ground truth within an       *)
(* ensemble (get_ranks), the rank histogram (get_ranks_distributions) and  *)
(* the entropy of rank histograms (get_entropy_of_distributions).          *)
(*                                                                         *)
(* Conventions.                                                            *)
(*  - A dataset is a record: dims (set of dimension names),                *)
(*    ensemble_member and init_time (the coordinate labels, by position)   *)
(*    and temp, the one data variable: temp[i][j] is the value at          *)
(*    init_time position i and ensemble_member position j.                 *)
(*  - Ranks are multiples of 1/2 (average-rank ties); the model stores     *)
(*    TWICE the rank as an integer (rank 1.5 is stored as 3).              *)
(*  - An entropy value H of a histogram with total S is stored exactly as  *)
(*    the pair num/den = exp(S * H), so H = ln(num/den) / S.               *)
(*  - Inputs: both datasets carry the same init_time labels and finite     *)
(*    values; the ensemble's member labels are 0 .. n-1 or include -1.     *)
(*    A call may follow another on the same (possibly relabelled) inputs.  *)
(***************************************************************************)
EXTENDS Integers, Sequences, FiniteSets

VARIABLES ground_truth, ensemble_data, call, distributions, entropy_call

vars == <<ground_truth, ensemble_data, call, distributions, entropy_call>>

\* ---------------------------------------------------------------- bounds
MaxN == 2
MaxVal == 2
MaxBins == 3
MaxTotal == 3

\* init_time labels of the inputs (a dataset carries a non-empty prefix)
InitTimes == <<"t0", "t1">>
\* variable names of a distributions mapping
Keys == {"temp", "precip"}
DTypes == {"int64", "float64"}

\* ------------------------------------------------------------- constants
Sentinel == -1
Required == {"ensemble_member", "init_time"}

\* --------------------------------------------------------------- helpers
Range(s) == {s[i] : i \in DOMAIN s}

RECURSIVE SumSeq(_)
SumSeq(s) == IF s = <<>> THEN 0 ELSE Head(s) + SumSeq(Tail(s))

RECURSIVE SumTo(_, _)
SumTo(a, b) == IF a > b THEN 0 ELSE a + SumTo(a + 1, b)

RECURSIVE Pow(_, _)
Pow(b, e) == IF e = 0 THEN 1 ELSE b * Pow(b, e - 1)

Min(S) == CHOOSE x \in S : \A y \in S : x <= y

RECURSIVE SortedSeq(_)
SortedSeq(S) == IF S = {} THEN <<>> ELSE <<Min(S)>> \o SortedSeq(S \ {Min(S)})

PositionOf(coord, lab) == CHOOSE j \in DOMAIN coord : coord[j] = lab

\* ------------------------------------------------------------- get_ranks
\* line 18: the chained comparison of the three dimension-name sets
DimsAssertMissingRequired(gt, ens) == ens.dims = gt.dims
DimsAssert(gt, ens) == Required = ens.dims /\ ens.dims = gt.dims

\* line 20: the coordinate can only be replaced by a list of the same length
CanRelabel(gt) == Len(gt.ensemble_member) = 1

RelabelClobbersData(ds) ==
    [ds EXCEPT !.ensemble_member = <<Sentinel>>,
               !.temp = [i \in DOMAIN ds.temp |-> <<Sentinel>>]]
Relabel(ds) == [ds EXCEPT !.ensemble_member = <<Sentinel>>]

\* line 21: xr.merge, outer join on ensemble_member, compat "no_conflicts"
MergedMembers(gt, ens) == Range(gt.ensemble_member) \cup Range(ens.ensemble_member)

MergeConflict(gt, ens) ==
    \E i \in DOMAIN gt.temp, g \in DOMAIN gt.ensemble_member,
       j \in DOMAIN ens.ensemble_member :
        /\ gt.ensemble_member[g] = ens.ensemble_member[j]
        /\ gt.temp[i][g] # ens.temp[i][j]

Merge(gt, ens) ==
    [ensemble_member |-> MergedMembers(gt, ens),
     init_time |-> gt.init_time,
     temp |-> [i \in DOMAIN gt.temp |->
                 [lab \in MergedMembers(gt, ens) |->
                    IF lab \in Range(gt.ensemble_member)
                    THEN gt.temp[i][PositionOf(gt.ensemble_member, lab)]
                    ELSE ens.temp[i][PositionOf(ens.ensemble_member, lab)]]]]

\* line 22: rank along ensemble_member; 1-based, a tie group gets the average
\* of the positions it occupies in sorted order.  The value is twice the rank.
Rank2ZeroBased(row, lab) ==
    LET less == Cardinality({l \in DOMAIN row : row[l] < row[lab]})
        dup  == Cardinality({l \in DOMAIN row : row[l] = row[lab]})
    IN  (2 * SumTo(less, less + dup - 1)) \div dup
Rank2Descending(row, lab) ==
    LET more == Cardinality({l \in DOMAIN row : row[l] > row[lab]})
        dup  == Cardinality({l \in DOMAIN row : row[l] = row[lab]})
    IN  (2 * SumTo(more + 1, more + dup)) \div dup
Rank2(row, lab) ==
    LET less == Cardinality({l \in DOMAIN row : row[l] < row[lab]})
        dup  == Cardinality({l \in DOMAIN row : row[l] = row[lab]})
    IN  (2 * SumTo(less + 1, less + dup)) \div dup

\* line 22: .sel(ensemble_member = -1)
SelSentinel(combined) ==
    [i \in DOMAIN combined.temp |-> Rank2(combined.temp[i], Sentinel)]

NoRanks == <<>>
NoMembers == {}

\* lines 18-22: the outcome of one call: status, ground truth afterwards,
\* the members of combined_ds and the (doubled) ranks returned
GetRanksResult(gt, ens) ==
    IF ~DimsAssert(gt, ens)
    THEN [status |-> "AssertionError", gt |-> gt,
          combined |-> NoMembers, ranks |-> NoRanks]
    ELSE IF ~CanRelabel(gt)
    THEN [status |-> "ValueError", gt |-> gt,
          combined |-> NoMembers, ranks |-> NoRanks]
    ELSE IF MergeConflict(Relabel(gt), ens)
    THEN [status |-> "MergeError", gt |-> Relabel(gt),
          combined |-> NoMembers, ranks |-> NoRanks]
    ELSE [status |-> "ok", gt |-> Relabel(gt),
          combined |-> MergedMembers(Relabel(gt), ens),
          ranks |-> SelSentinel(Merge(Relabel(gt), ens))]

\* ----------------------------------------------- get_ranks_distributions
\* line 44: np.unique(values, return_counts=True): the sorted distinct
\* (doubled) ranks and how often each occurs
UniqueValues(values) == SortedSeq(Range(values))

Counts(values) ==
    [p \in DOMAIN UniqueValues(values) |->
        Cardinality({i \in DOMAIN values : values[i] = UniqueValues(values)[p]})]

\* line 45: np.where(unique_values == k)[0]: the positions holding rank k, an
\* array of length 1 when rank k is realized and of length 0 when it is not
Where(unique_values, k) ==
    SortedSeq({p \in DOMAIN unique_values : unique_values[p] = 2 * k})

\* line 40
NRanks(ens) == Len(ens.ensemble_member) + 1

\* line 45: the list handed to np.array, one entry per k in 1 .. n_ranks
Indices(values, n_ranks) ==
    [k \in 1 .. n_ranks |-> Where(UniqueValues(values), k)]

\* line 45: np.array accepts the list only when all entries have one length
Homogeneous(indices) ==
    \A k \in DOMAIN indices : Len(indices[k]) = Len(indices[1])

\* line 46: counts[indices]: the array of the shape of indices
Take(counts, indices) ==
    [k \in DOMAIN indices |->
        [q \in DOMAIN indices[k] |-> counts[indices[k][q]]]]

NoHist == <<>>

\* lines 45-46 on a ragged list: np.array raises ValueError (numpy >= 1.24)
\* or builds an object array that counts[...] rejects with IndexError
RaggedErrors == {"ValueError", "IndexError"}

\* lines 38-47: the outcomes of one call
GetRanksDistributionsResults(gt, ens) ==
    LET r == GetRanksResult(gt, ens)
        indices == Indices(r.ranks, NRanks(ens))
    IN  IF r.status # "ok"
        THEN {[status |-> r.status, gt |-> r.gt, combined |-> r.combined,
               ranks |-> NoRanks, hist |-> NoHist]}
        ELSE IF Homogeneous(indices)
        THEN {[status |-> "ok", gt |-> r.gt, combined |-> r.combined,
               ranks |-> r.ranks, hist |-> Take(Counts(r.ranks), indices)]}
        ELSE {[status |-> e, gt |-> r.gt, combined |-> r.combined,
               ranks |-> r.ranks, hist |-> NoHist] : e \in RaggedErrors}

\* ---------------------------------------------------------------- inputs
Val == 0 .. MaxVal

Dataset(dims, members, times, temp) ==
    [dims |-> dims, ensemble_member |-> members, init_time |-> times,
     temp |-> temp]

\* member labels of an ensemble of size n: 0 .. n-1, or with a member
\* labelled -1
EnsLabelings(n) ==
    {[j \in 1 .. n |-> j - 1], [j \in 1 .. n |-> j - 2]}

Times(t) == SubSeq(InitTimes, 1, t)

DimSets == {Required, {"init_time"}, Required \cup {"level"}}

\* inputs that conform to the documented data model: an ensemble of n members
\* and a ground truth of one entry over the same t init_times
WellFormedInput(gt, ens) ==
    \E n \in 1 .. MaxN, t \in 1 .. Len(InitTimes) :
        \E lab \in EnsLabelings(n),
           g \in [1 .. t -> [1 .. 1 -> Val]],
           e \in [1 .. t -> [1 .. n -> Val]] :
            /\ gt = Dataset(Required, <<0>>, Times(t), g)
            /\ ens = Dataset(Required, lab, Times(t), e)

\* inputs that break a precondition: a wrong set of dimension names on
\* either side, or a ground truth with more than one ensemble_member entry
IllFormedInput(gt, ens) ==
    \/ \E dg \in DimSets, de \in DimSets :
        /\ gt = Dataset(dg, <<0>>, Times(1), <<<<1>>>>)
        /\ ens = Dataset(de, <<0>>, Times(1), <<<<1>>>>)
    \/ \E v \in Val :
        /\ gt = Dataset(Required, <<0, 1>>, Times(1), <<<<v, 1>>>>)
        /\ ens = Dataset(Required, <<0>>, Times(1), <<<<1>>>>)

Idle == [op |-> "none", status |-> "idle", combined |-> NoMembers,
         ranks |-> NoRanks, hist |-> NoHist]

NoDistributions == <<>>
NoResult == <<>>
EntropyIdle == [status |-> "idle", variable |-> "", result |-> NoResult]

Init ==
    /\ \/ WellFormedInput(ground_truth, ensemble_data)
       \/ IllFormedInput(ground_truth, ensemble_data)
    /\ call = Idle
    /\ distributions = NoDistributions
    /\ entropy_call = EntropyIdle

\* --------------------------------------------------------------- actions
GetRanks ==
    LET r == GetRanksResult(ground_truth, ensemble_data)
    IN  /\ ground_truth' = r.gt
        /\ call' = [op |-> "get_ranks", status |-> r.status,
                    combined |-> r.combined, ranks |-> r.ranks,
                    hist |-> NoHist]
        /\ UNCHANGED <<ensemble_data, distributions, entropy_call>>

GetRanksDistributions ==
    \E r \in GetRanksDistributionsResults(ground_truth, ensemble_data) :
        /\ ground_truth' = r.gt
        /\ call' = [op |-> "get_ranks_distributions", status |-> r.status,
                    combined |-> r.combined, ranks |-> r.ranks,
                    hist |-> r.hist]
        /\ UNCHANGED <<ensemble_data, distributions, entropy_call>>

Next == GetRanks \/ GetRanksDistributions

Spec == Init /\ [][Next]_vars

\* ------------------------------------------ get_entropy_of_distributions
\* a distributions mapping is the sequence of its items in insertion order:
\* records [key, dtype, counts]

\* line 60: the asserted condition
DTypeOkAnyNumeric(value) == value.dtype \in {"int64", "float64"}
DTypeOk(value) == value.dtype = "int64"

\* lines 59-60: the items whose assertion fails
Offending(d) == {i \in DOMAIN d : ~DTypeOk(d[i])}

RECURSIVE ProdSelfPow(_)
ProdSelfPow(pk) ==
    IF pk = <<>> THEN 1 ELSE Pow(Head(pk), Head(pk)) * ProdSelfPow(Tail(pk))

\* line 65: scipy.stats.entropy(pk): pk is normalised to sum 1, then
\* -sum(p * ln p) with 0 * ln 0 = 0.  With S = sum(pk) the value H satisfies
\* exp(S * H) = S^S / prod(c^c); an all-zero pk divides 0 by 0 and gives nan.
EntropyUnnormalised(pk) ==
    IF SumSeq(pk) = 0
    THEN [nan |-> TRUE, num |-> 0, den |-> 0, scale |-> 0]
    ELSE [nan |-> FALSE, num |-> 1, den |-> ProdSelfPow(pk), scale |-> 1]
Entropy(pk) ==
    IF SumSeq(pk) = 0
    THEN [nan |-> TRUE, num |-> 0, den |-> 0, scale |-> 0]
    ELSE [nan |-> FALSE, num |-> Pow(SumSeq(pk), SumSeq(pk)),
          den |-> ProdSelfPow(pk), scale |-> SumSeq(pk)]

\* lines 59-66: the outcome of one call; result lists the returned mapping's
\* items in insertion order
GetEntropyResult(d) ==
    IF Offending(d) # {}
    THEN [status |-> "AssertionError", variable |-> d[Min(Offending(d))].key,
          result |-> NoResult]
    ELSE [status |-> "ok", variable |-> "",
          result |-> [i \in DOMAIN d |->
                        [key |-> d[i].key, value |-> Entropy(d[i].counts)]]]

\* count arrays with n bins
CountArrays(n) == {c \in [1 .. n -> 0 .. MaxTotal] : SumSeq(c) <= MaxTotal}

KeyOrders ==
    {<<k>> : k \in Keys}
    \cup {<<p[1], p[2]>> : p \in {q \in Keys \X Keys : q[1] # q[2]}}

\* mappings of one or two variables whose arrays have the same number of bins
DistributionInput(d) ==
    \E n \in 1 .. MaxBins, ks \in KeyOrders :
        \E a \in [DOMAIN ks -> [dtype : DTypes, counts : CountArrays(n)]] :
            d = [i \in DOMAIN ks |-> [key |-> ks[i], dtype |-> a[i].dtype,
                                      counts |-> a[i].counts]]

InitEntropy ==
    /\ ground_truth = Dataset(Required, <<0>>, Times(1), <<<<1>>>>)
    /\ ensemble_data = Dataset(Required, <<0>>, Times(1), <<<<1>>>>)
    /\ call = Idle
    /\ DistributionInput(distributions)
    /\ entropy_call = EntropyIdle

GetEntropyOfDistributions ==
    /\ entropy_call' = GetEntropyResult(distributions)
    /\ UNCHANGED <<ground_truth, ensemble_data, call, distributions>>

NextEntropy == GetEntropyOfDistributions

SpecEntropy == InitEntropy /\ [][NextEntropy]_vars

\* ---------------------------------------------------------------- claims
N == Len(ensemble_data.ensemble_member)
T == Len(ground_truth.init_time)

\* the inputs of the last call conform to the data model and no ensemble
\* member carries the sentinel label
Conforming ==
    /\ DimsAssert(ground_truth, ensemble_data)
    /\ CanRelabel(ground_truth)
    /\ Sentinel \notin Range(ensemble_data.ensemble_member)

\* members strictly below / equal to / strictly above the truth at init_time i
Below(i) == {j \in 1 .. N : ensemble_data.temp[i][j] < ground_truth.temp[i][1]}
Equal(i) == {j \in 1 .. N : ensemble_data.temp[i][j] = ground_truth.temp[i][1]}
Above(i) == {j \in 1 .. N : ensemble_data.temp[i][j] > ground_truth.temp[i][1]}

\* the number of init_times at which the truth's rank is k
Occurrences(k) == Cardinality({i \in DOMAIN call.ranks : call.ranks[i] = 2 * k})

RECURSIVE SumRows(_)
SumRows(h) == IF h = <<>> THEN 0 ELSE SumSeq(Head(h)) + SumRows(Tail(h))

\* C1: for conforming inputs get_ranks_distributions returns without error an
\* array of length N+1 whose entry k-1 is the number of init_times with rank
\* k, a rank that never occurs being counted 0.  (Stated for the inputs where
\* the truth ties with no member, so that every rank is one of 1 .. N+1.)
C1_EveryRankCounted ==
    (/\ call.op = "get_ranks_distributions"
     /\ Conforming
     /\ \A i \in DOMAIN ground_truth.temp : Equal(i) = {}) =>
        /\ call.status = "ok"
        /\ Len(call.hist) = N + 1
        /\ \A k \in 1 .. N + 1 : call.hist[k] = <<Occurrences(k)>>

\* C2: the bins of a returned histogram sum to the number of init_times,
\* ties between the truth and members included.
C2_HistogramSumsToInitTimes ==
    (call.op = "get_ranks_distributions" /\ call.status = "ok" /\ Conforming)
        => SumRows(call.hist) = T

\* C3: every rank get_ranks returns lies in [1, N+1] (doubled: [2, 2N+2]).
C3_RankInRange ==
    (call.op = "get_ranks" /\ call.status = "ok") =>
        \A i \in DOMAIN call.ranks :
            2 <= call.ranks[i] /\ call.ranks[i] <= 2 * (N + 1)

C3_Witness ==
    /\ call.op = "get_ranks" /\ call.status = "ok" /\ N = MaxN
    /\ \E i \in DOMAIN call.ranks : call.ranks[i] = 2
    /\ \E i \in DOMAIN call.ranks : call.ranks[i] = 2 * (N + 1)

\* C4: where the truth is strictly above every member its rank is N+1, where
\* it is strictly below every member its rank is 1.
C4_ExtremeRanks ==
    (call.op = "get_ranks" /\ call.status = "ok") =>
        \A i \in DOMAIN call.ranks :
            /\ Below(i) = 1 .. N => call.ranks[i] = 2 * (N + 1)
            /\ Above(i) = 1 .. N => call.ranks[i] = 2

C4_Witness ==
    /\ call.op = "get_ranks" /\ call.status = "ok" /\ N = MaxN /\ T = 2
    /\ Above(1) = 1 .. N /\ call.ranks[1] = 2
    /\ Below(2) = 1 .. N /\ call.ranks[2] = 2 * (N + 1)

\* C5: get_ranks fails with an assertion error and no ranks exactly when the
\* dimension names of the ensemble or of the ground truth are not
\* {ensemble_member, init_time}.
C5_DimsAsserted ==
    (call.op = "get_ranks") =>
        ((call.status = "AssertionError" /\ call.ranks = NoRanks)
            <=> ~(ensemble_data.dims = Required /\ ground_truth.dims = Required))

C5_Witness ==
    /\ call.op = "get_ranks" /\ call.status = "AssertionError"
    /\ ensemble_data.dims = ground_truth.dims
    /\ "level" \in ensemble_data.dims

\* C6: get_entropy_of_distributions fails with an assertion error naming an
\* offending variable, and returns no value at all, whenever some array is
\* not int64; otherwise it returns exactly one value per input variable.
C6_DTypeAsserted ==
    (entropy_call.status # "idle") =>
        IF \E i \in DOMAIN distributions : distributions[i].dtype # "int64"
        THEN /\ entropy_call.status = "AssertionError"
             /\ \E i \in DOMAIN distributions :
                    /\ distributions[i].dtype # "int64"
                    /\ entropy_call.variable = distributions[i].key
             /\ entropy_call.result = NoResult
        ELSE /\ entropy_call.status = "ok"
             /\ Len(entropy_call.result) = Len(distributions)
             /\ \A i \in DOMAIN distributions :
                    entropy_call.result[i].key = distributions[i].key

C6_Witness ==
    /\ entropy_call.status = "AssertionError"
    /\ Len(distributions) = 2
    /\ distributions[1].dtype = "int64"
    /\ distributions[2].dtype = "float64"
    /\ entropy_call.variable = distributions[2].key
    /\ entropy_call.result = NoResult

\* C7: a successful get_ranks call leaves the ensemble dataset and the ground
\* truth's values, init_time coordinate and dimensions as they were, and
\* sets the ground truth's ensemble_member label to -1.
C7_Frame ==
    [][(call'.op = "get_ranks" /\ call'.status = "ok") =>
          /\ ensemble_data' = ensemble_data
          /\ ground_truth'.temp = ground_truth.temp
          /\ ground_truth'.init_time = ground_truth.init_time
          /\ ground_truth'.dims = ground_truth.dims
          /\ ground_truth'.ensemble_member = <<Sentinel>>]_vars

C7_Witness ==
    /\ call.op = "get_ranks" /\ call.status = "ok"
    /\ ground_truth.ensemble_member = <<Sentinel>>
    /\ N = MaxN /\ T = 2

\* an entropy value is 0 / is ln(n)
IsZero(h) == ~h.nan /\ h.num = h.den
IsLogOf(h, n) == ~h.nan /\ h.num = h.den * Pow(n, h.scale)

OneHot(c) == Cardinality({b \in DOMAIN c : c[b] # 0}) = 1
Uniform(c) == c[1] > 0 /\ \A b \in DOMAIN c : c[b] = c[1]

\* C8: the entropy of an int64 histogram with all mass in one bin is 0, and
\* of one whose bins all hold the same positive count is ln(number of bins).
C8_EntropyExtremes ==
    (entropy_call.status = "ok") =>
        \A i \in DOMAIN distributions :
            /\ OneHot(distributions[i].counts)
                  => IsZero(entropy_call.result[i].value)
            /\ Uniform(distributions[i].counts)
                  => IsLogOf(entropy_call.result[i].value,
                             Len(distributions[i].counts))

C8_Witness ==
    /\ entropy_call.status = "ok"
    /\ \E i \in DOMAIN distributions :
          /\ Len(distributions[i].counts) = MaxBins
          /\ Uniform(distributions[i].counts)
    /\ \E i \in DOMAIN distributions :
          /\ OneHot(distributions[i].counts)
          /\ SumSeq(distributions[i].counts) > 1

\* C9: with L members strictly below the truth and E members equal to it,
\* the rank get_ranks returns is L + 1 + E/2 (doubled: 2L + 2 + E).
C9_AverageRank ==
    (call.op = "get_ranks" /\ call.status = "ok") =>
        \A i \in DOMAIN call.ranks :
            call.ranks[i] = 2 * Cardinality(Below(i)) + 2 + Cardinality(Equal(i))

\* C10: whatever the ensemble's member labels, the sentinel label is none of
\* them, and the merged dataset has N+1 entries along ensemble_member.
C10_SentinelDistinct ==
    (call.op = "get_ranks" /\ call.status = "ok") =>
        /\ Sentinel \notin Range(ensemble_data.ensemble_member)
        /\ Cardinality(call.combined) = N + 1

=============================================================================
